---- MODULE Spec2Model ----
(***************************************************************************)
(* Maat (validation.py): the schema engine maat_scale, the validator and   *)
(* transformation registries it dispatches to, and the scalar validators.  *)
(*                                                                         *)
(* Python values are records tagged with the type name t: a number n (a    *)
(* float counts tenths), a text s, a list or tuple of values q, a dict d   *)
(* that is a function from key strings to values.  A schema node is a      *)
(* record that carries only the keys the Python dict carries, so that      *)
(* "'default_value' in item" and item.get(...) read as in the source.      *)
(* A Python call either returns a value, [ok |-> TRUE, v |-> ...], or      *)
(* raises, [ok |-> FALSE, exc |-> <exception class>, rule, key, val].      *)
(***************************************************************************)
EXTENDS Integers, Sequences, FiniteSets, TLC

VARIABLES registered_functions, input_dict, counter_dict, order, key_order, result

vars == <<registered_functions, input_dict, counter_dict, order, key_order, result>>

(***************************************************************************)
(* Bounds of the model.                                                    *)
(***************************************************************************)
\* longest list value and largest associative array drawn as input
MaxLen == 2
\* integers drawn as input lie in -1 .. MaxInt
MaxInt == 2

(***************************************************************************)
(* Python values.                                                          *)
(***************************************************************************)
NoneVal == [t |-> "NoneType"]
IntVal(i) == [t |-> "int", n |-> i]
FloatVal(n) == [t |-> "float", n |-> n]
NaN == [t |-> "float", nan |-> TRUE]
StrVal(s) == [t |-> "basestring", s |-> s]
ListVal(q) == [t |-> "list", q |-> q]
TupleVal(q) == [t |-> "tuple", q |-> q]
DictVal(f) == [t |-> "dict", d |-> f]
EmptyDict == [k \in {} |-> NoneVal]

IsNaN(x) == x.t = "float" /\ "nan" \in DOMAIN x

\* a returned value, and a raised exception
Return(x) == [ok |-> TRUE, v |-> x]
Raise(exc, rule, key, val) == [ok |-> FALSE, exc |-> exc, rule |-> rule, key |-> key, val |-> val]

(***************************************************************************)
(* Text: Python's int(), float(), str() and repr() on the values above.    *)
(***************************************************************************)
DigitChars == <<"0", "1", "2", "3", "4", "5", "6", "7", "8", "9">>
Digit(d) == DigitChars[d + 1]
IsDigit(c) == \E d \in 0..9 : Digit(d) = c
DigitOf(c) == CHOOSE d \in 0..9 : Digit(d) = c

RECURSIVE NatToStr(_)
NatToStr(n) == IF n < 10 THEN Digit(n) ELSE NatToStr(n \div 10) \o Digit(n % 10)

IntToStr(i) == IF i < 0 THEN "-" \o NatToStr(-i) ELSE NatToStr(i)

\* repr of a float held in tenths: 23.0, -0.5
FloatToStr(n) ==
    LET a == IF n < 0 THEN -n ELSE n
    IN  (IF n < 0 THEN "-" ELSE "") \o NatToStr(a \div 10) \o "." \o Digit(a % 10)

RECURSIVE AllDigits(_)
AllDigits(s) == s = "" \/ (IsDigit(Head(s)) /\ AllDigits(Tail(s)))

RECURSIVE DigitsValue(_, _)
DigitsValue(s, acc) ==
    IF s = "" THEN acc ELSE DigitsValue(Tail(s), 10 * acc + DigitOf(Head(s)))

RECURSIVE LStrip(_)
LStrip(s) == IF s # "" /\ Head(s) = " " THEN LStrip(Tail(s)) ELSE s

RECURSIVE RStrip(_)
RStrip(s) ==
    IF s # "" /\ SubSeq(s, Len(s), Len(s)) = " " THEN RStrip(SubSeq(s, 1, Len(s) - 1)) ELSE s

Strip(s) == RStrip(LStrip(s))

\* the sign and the unsigned rest of a stripped numeral
SignOf(u) == IF u # "" /\ Head(u) = "-" THEN -1 ELSE 1
Unsigned(u) == IF u # "" /\ Head(u) \in {"+", "-"} THEN Tail(u) ELSE u

\* the position of the first "." of s, 0 when there is none
RECURSIVE DotAt(_, _)
DotAt(s, i) ==
    IF i > Len(s) THEN 0 ELSE IF SubSeq(s, i, i) = "." THEN i ELSE DotAt(s, i + 1)

\* int(x) of Python 2: ValueError for text that is no integer numeral and for
\* NaN, TypeError for None and for containers
py_int(x) ==
    CASE x.t = "int" -> Return(x)
      [] x.t = "float" ->
            IF IsNaN(x) THEN Raise("ValueError", "cannot convert float NaN to integer", "", x)
            ELSE Return(IntVal(IF x.n < 0 THEN -((-x.n) \div 10) ELSE x.n \div 10))
      [] x.t = "basestring" ->
            LET u == Strip(x.s)
                b == Unsigned(u)
            IN  IF b # "" /\ AllDigits(b)
                THEN Return(IntVal(SignOf(u) * DigitsValue(b, 0)))
                ELSE Raise("ValueError", "invalid literal for int()", "", x)
      [] OTHER -> Raise("TypeError", "int() argument must be a string or a number", "", x)

\* float(x) of Python 2 on numerals with at most one fractional digit and "nan"
py_float(x) ==
    CASE x.t = "float" -> Return(x)
      [] x.t = "int" -> Return(FloatVal(10 * x.n))
      [] x.t = "basestring" ->
            LET u == Strip(x.s)
                b == Unsigned(u)
                d == DotAt(b, 1)
                whole == IF d = 0 THEN b ELSE SubSeq(b, 1, d - 1)
                frac == IF d = 0 THEN "" ELSE SubSeq(b, d + 1, Len(b))
            IN  IF b = "nan" THEN Return(NaN)
                ELSE IF /\ AllDigits(whole) /\ AllDigits(frac)
                        /\ whole \o frac # "" /\ Len(frac) <= 1
                THEN Return(FloatVal(SignOf(u) * (10 * DigitsValue(whole, 0) + DigitsValue(frac, 0))))
                ELSE Raise("ValueError", "could not convert string to float", "", x)
      [] OTHER -> Raise("TypeError", "float() argument must be a string or a number", "", x)

\* the keys of dict d in iteration order ord (a sequence holding every key once)
RECURSIVE KeysInOrder(_, _)
KeysInOrder(d, ord) ==
    IF ord = <<>> THEN <<>>
    ELSE IF Head(ord) \in DOMAIN d
         THEN <<Head(ord)>> \o KeysInOrder(d, Tail(ord))
         ELSE KeysInOrder(d, Tail(ord))

\* sep.join(parts)
RECURSIVE Join(_, _)
Join(parts, sep) ==
    IF parts = <<>> THEN ""
    ELSE IF Len(parts) = 1 THEN parts[1]
    ELSE parts[1] \o sep \o Join(Tail(parts), sep)

\* repr(x) of Python 2
RECURSIVE py_repr(_)
py_repr(x) ==
    CASE x.t = "NoneType" -> "None"
      [] x.t = "int" -> IntToStr(x.n)
      [] x.t = "float" -> IF IsNaN(x) THEN "nan" ELSE FloatToStr(x.n)
      [] x.t = "basestring" -> "u'" \o x.s \o "'"
      [] x.t = "list" -> "[" \o Join([i \in 1..Len(x.q) |-> py_repr(x.q[i])], ", ") \o "]"
      [] x.t = "tuple" ->
            IF Len(x.q) = 1 THEN "(" \o py_repr(x.q[1]) \o ",)"
            ELSE "(" \o Join([i \in 1..Len(x.q) |-> py_repr(x.q[i])], ", ") \o ")"
      [] x.t = "dict" ->
            LET ks == KeysInOrder(x.d, key_order)
            IN  "{" \o Join([i \in 1..Len(ks) |->
                                "u'" \o ks[i] \o "': " \o py_repr(x.d[ks[i]])], ", ") \o "}"

\* str(x): text is returned as it is, anything else as its repr
py_str(x) == IF x.t = "basestring" THEN Return(x) ELSE Return(StrVal(py_repr(x)))

\* list(x): the elements of a list or tuple, the characters of a text, the
\* keys of a dict; TypeError for what cannot be iterated
py_list(x) ==
    CASE x.t \in {"list", "tuple"} -> Return(ListVal(x.q))
      [] x.t = "basestring" -> Return(ListVal([i \in 1..Len(x.s) |-> StrVal(SubSeq(x.s, i, i))]))
      [] x.t = "dict" ->
            LET ks == KeysInOrder(x.d, key_order)
            IN  Return(ListVal([i \in 1..Len(ks) |-> StrVal(ks[i])]))
      [] OTHER -> Raise("TypeError", "object is not iterable", "", x)

\* json.dumps(x): the JSON text of x, a tuple written as a list
RECURSIVE json_dumps(_)
json_dumps(x) ==
    CASE x.t = "NoneType" -> "null"
      [] x.t = "int" -> IntToStr(x.n)
      [] x.t = "float" -> IF IsNaN(x) THEN "NaN" ELSE FloatToStr(x.n)
      [] x.t = "basestring" -> "\"" \o x.s \o "\""
      [] x.t \in {"list", "tuple"} ->
            "[" \o Join([i \in 1..Len(x.q) |-> json_dumps(x.q[i])], ", ") \o "]"
      [] x.t = "dict" ->
            LET ks == KeysInOrder(x.d, key_order)
            IN  "{" \o Join([i \in 1..Len(ks) |->
                                "\"" \o ks[i] \o "\": " \o json_dumps(x.d[ks[i]])], ", ") \o "}"

(***************************************************************************)
(* The scalar validators.  args is the record of keyword arguments the     *)
(* schema passes; a keyword the function does not take is a TypeError of   *)
(* the call itself.  The regular expressions (regex of str_validation,     *)
(* key_regex of dict_validation) are left out: no schema drawn here        *)
(* carries one.                                                            *)
(***************************************************************************)
HasArg(args, a) == a \in DOMAIN args
BadKeyword(args, allowed, key, val) ==
    Raise("TypeError", "got an unexpected keyword argument", key, val)

str_validation(val, key, args) ==
    IF ~(DOMAIN args \subseteq {"min_length", "max_length", "choices"})
    THEN BadKeyword(args, {"min_length", "max_length", "choices"}, key, val)
    ELSE IF val.t # "basestring"
    THEN Raise("Invalid", "not of type string", key, val)
    ELSE IF HasArg(args, "min_length") /\ Len(val.s) < args.min_length
    THEN Raise("Invalid", "less then minimal length", key, val)
    ELSE IF HasArg(args, "max_length") /\ Len(val.s) > args.max_length
    THEN Raise("Invalid", "more then maximal length", key, val)
    ELSE IF HasArg(args, "choices") /\ val.s \notin args.choices
    THEN Raise("Invalid", "not in valid choices", key, val)
    ELSE Return(val)

\* BoundsCheck with the upper bound exclusive: a value equal to max_amount
\* is rejected
BoundsCheck_exclusive_max(val, num, scale, key, args, what) ==
    IF HasArg(args, "min_amount") /\ num < scale * args.min_amount
    THEN Raise("Invalid", what \o " is less then min_amount", key, val)
    ELSE IF HasArg(args, "max_amount") /\ num >= scale * args.max_amount
    THEN Raise("Invalid", what \o " is less then max_amount", key, val)
    ELSE Return(val)

\* the bounds of int_validation and float_validation, applied to a value
\* held in units of 1/scale
BoundsCheck(val, num, scale, key, args, what) ==
    IF HasArg(args, "min_amount") /\ num < scale * args.min_amount
    THEN Raise("Invalid", what \o " is less then min_amount", key, val)
    ELSE IF HasArg(args, "max_amount") /\ num > scale * args.max_amount
    THEN Raise("Invalid", what \o " is less then max_amount", key, val)
    ELSE Return(val)

int_validation(val, key, args) ==
    IF ~(DOMAIN args \subseteq {"min_amount", "max_amount", "cast"})
    THEN BadKeyword(args, {"min_amount", "max_amount", "cast"}, key, val)
    ELSE LET c == IF HasArg(args, "cast") /\ args.cast THEN py_int(val) ELSE Return(val)
         IN  IF ~c.ok
             THEN Raise("Invalid", "unable to cast to integer", key, val)
             ELSE IF c.v.t # "int"
             THEN Raise("Invalid", "not of type integer", key, c.v)
             ELSE BoundsCheck(c.v, c.v.n, 1, key, args, "integer")

float_validation(val, key, args) ==
    IF ~(DOMAIN args \subseteq {"min_amount", "max_amount", "cast"})
    THEN BadKeyword(args, {"min_amount", "max_amount", "cast"}, key, val)
    ELSE LET c == IF HasArg(args, "cast") /\ args.cast THEN py_float(val) ELSE Return(val)
         IN  IF ~c.ok
             THEN Raise("Invalid", "unable to cast to float", key, val)
             ELSE IF c.v.t # "float" \/ IsNaN(c.v)
             THEN Raise("Invalid", "not of type float", key, c.v)
             ELSE BoundsCheck(c.v, c.v.n, 10, key, args, "float")

\* the size bounds list_validation and dict_validation share
AmountCheck(val, n, key, args) ==
    IF HasArg(args, "min_amount") /\ n < args.min_amount
    THEN Raise("Invalid", "contains less then minimal amount", key, val)
    ELSE IF HasArg(args, "max_amount") /\ n > args.max_amount
    THEN Raise("Invalid", "contains more then maximum amount", key, val)
    ELSE Return(val)

list_validation(val, key, args) ==
    IF ~(DOMAIN args \subseteq {"min_amount", "max_amount"})
    THEN BadKeyword(args, {"min_amount", "max_amount"}, key, val)
    ELSE IF val.t # "list"
    THEN Raise("Invalid", "not of type list", key, val)
    ELSE AmountCheck(val, Len(val.q), key, args)

dict_validation(val, key, args) ==
    IF ~(DOMAIN args \subseteq {"min_amount", "max_amount", "key_min", "key_max"})
    THEN BadKeyword(args, {"min_amount", "max_amount", "key_min", "key_max"}, key, val)
    ELSE IF val.t # "dict"
    THEN Raise("Invalid", "is not a dictionary", key, val)
    ELSE AmountCheck(val, Cardinality(DOMAIN val.d), key, args)

\* UUID(val, version=4) accepts 32 hexadecimal digits, hyphens ignored
HexChars == {"0", "1", "2", "3", "4", "5", "6", "7", "8", "9",
             "a", "b", "c", "d", "e", "f", "A", "B", "C", "D", "E", "F"}

\* the number of hexadecimal digits of s, hyphens skipped; -1 with any other
\* character in s
RECURSIVE HexCount(_, _)
HexCount(s, n) ==
    IF s = "" THEN n
    ELSE IF Head(s) = "-" THEN HexCount(Tail(s), n)
    ELSE IF Head(s) \in HexChars THEN HexCount(Tail(s), n + 1)
    ELSE -1

uuid_validation(val, key, args) ==
    IF DOMAIN args # {}
    THEN BadKeyword(args, {}, key, val)
    ELSE IF val.t # "basestring" \/ HexCount(val.s, 0) # 32
    THEN Raise("Invalid", "invalid UUID4", key, val)
    ELSE Return(val)

\* the validator the tests register at runtime under the name valid_address
blacklist == {"blacklisted", "black_listed", "BLACKLISTED"}

blacklist_address(val, key, args) ==
    IF DOMAIN args # {}
    THEN BadKeyword(args, {}, key, val)
    ELSE IF val.t = "basestring" /\ val.s \in blacklist
    THEN Raise("Invalid", "is in blacklist", key, val)
    ELSE Return(val)

(***************************************************************************)
(* The registries.  A registry maps a name to a function, named here by    *)
(* the function's name in the source.                                      *)
(***************************************************************************)
builtin_functions ==
    [int |-> "int_validation", str |-> "str_validation", float |-> "float_validation",
     uuid |-> "uuid_validation", list |-> "list_validation", dict |-> "dict_validation"]

registered_transformation == {"int", "str", "float", "list", "json", "json_dict"}

\* validation_func(key=key, val=val, **validation_args)
call_validator(fn, val, key, args) ==
    CASE fn = "int_validation" -> int_validation(val, key, args)
      [] fn = "str_validation" -> str_validation(val, key, args)
      [] fn = "float_validation" -> float_validation(val, key, args)
      [] fn = "uuid_validation" -> uuid_validation(val, key, args)
      [] fn = "list_validation" -> list_validation(val, key, args)
      [] fn = "dict_validation" -> dict_validation(val, key, args)
      [] fn = "blacklist_address" -> blacklist_address(val, key, args)

\* item.get(name) is truthy
Truthy(item, name) == name \in DOMAIN item /\ item[name]

\* get_validation_func looking the name up among the built-in validators
\* only: a validator registered at runtime is not found
get_validation_func_builtin_only(item) ==
    IF "validator" \in DOMAIN item /\ item.validator \in DOMAIN builtin_functions
    THEN Return(builtin_functions[item.validator])
    ELSE Raise("Invalid", "is not registered as validator", "",
               IF "validator" \in DOMAIN item THEN StrVal(item.validator) ELSE NoneVal)

get_validation_func(item) ==
    IF "validator" \in DOMAIN item /\ item.validator \in DOMAIN registered_functions
    THEN Return(registered_functions[item.validator])
    ELSE Raise("Invalid", "is not registered as validator", "",
               IF "validator" \in DOMAIN item THEN StrVal(item.validator) ELSE NoneVal)

\* get_transformation_func with a name that is not registered taken for
\* unset: the no-op is returned
get_transformation_func_lenient(item, type_transformation) ==
    IF type_transformation \notin DOMAIN item
    THEN Return("identity")
    ELSE IF item[type_transformation] \in registered_transformation
    THEN Return(item[type_transformation])
    ELSE Return("identity")

\* the function is named by its registry key, the no-op by "identity"
get_transformation_func(item, type_transformation) ==
    IF type_transformation \notin DOMAIN item
    THEN Return("identity")
    ELSE IF item[type_transformation] \in registered_transformation
    THEN Return(item[type_transformation])
    ELSE Raise("Invalid", "is not registered as transformation", "",
               StrVal(item[type_transformation]))

(***************************************************************************)
(* maat_scale.  Every step of a call is recorded in a log of events        *)
(* [op, fn, key, lvl, val]: the registry lookups, each application of a    *)
(* transformation or a validator (with the value it is applied to) and     *)
(* each recursive call, lvl being the depth of the maat_scale call that    *)
(* takes the step.  A call's outcome is Return(validated_items) or the     *)
(* exception raised, each with the log up to there.                        *)
(***************************************************************************)
Ev(op, fn, key, lvl, val) == [op |-> op, fn |-> fn, key |-> key, lvl |-> lvl, val |-> val]

\* the outcomes of one pass of the loop over the schema's fields:
\* validated_items[key] = x, a bare continue, and an exception
Stored(x, log) == [ok |-> TRUE, set |-> TRUE, v |-> x, log |-> log]
Skipped(log) == [ok |-> TRUE, set |-> FALSE, log |-> log]
Failed(e, log) ==
    [ok |-> FALSE, exc |-> e.exc, rule |-> e.rule, key |-> e.key, val |-> e.val, log |-> log]

Put(d, k, x) == [j \in DOMAIN d \cup {k} |-> IF j = k THEN x ELSE d[j]]

\* lambda x: json.loads(x) on the JSON texts of scalars and of lists of scalars
JsonScalars ==
    {NoneVal} \cup {IntVal(i) : i \in -1..MaxInt} \cup {StrVal(w) : w \in {"ok", "2"}}
JsonValues ==
    JsonScalars \cup {ListVal(q) : q \in UNION {[1..n -> JsonScalars] : n \in 0..MaxLen}}

json_loads(x) ==
    IF x.t # "basestring"
    THEN Raise("TypeError", "expected string or buffer", "", x)
    ELSE IF \E j \in JsonValues : json_dumps(j) = x.s
    THEN Return(CHOOSE j \in JsonValues : json_dumps(j) = x.s)
    ELSE Raise("ValueError", "No JSON object could be decoded", "", x)

\* the registered lambdas, and the lambda x: x of an unset transformation
apply_transformation(fn, x) ==
    CASE fn = "identity" -> Return(x)
      [] fn = "int" -> py_int(x)
      [] fn = "str" -> py_str(x)
      [] fn = "float" -> py_float(x)
      [] fn = "list" -> py_list(x)
      [] fn = "json" -> Return(StrVal(json_dumps(x)))
      [] fn = "json_dict" -> json_loads(x)

\* LET r == x IN F(r), with x evaluated once
Bind(x, F(_)) == F(x)

\* validate_value with the validator applied to the value as it came in,
\* the pre_transform applied after it
validate_value_raw(pre, fn, args, post, key, val, lvl) ==
    Bind(call_validator(fn, val, key, args),
         LAMBDA b :
            IF ~b.ok THEN Failed(b, <<Ev("validate", fn, key, lvl, val)>>)
            ELSE Bind(apply_transformation(pre, b.v),
                      LAMBDA a :
                        IF ~a.ok
                        THEN Failed(a, <<Ev("validate", fn, key, lvl, val),
                                         Ev("pre_transform", pre, key, lvl, b.v)>>)
                        ELSE Bind(apply_transformation(post, a.v),
                                  LAMBDA c :
                                    IF ~c.ok
                                    THEN Failed(c, <<Ev("validate", fn, key, lvl, val),
                                                     Ev("pre_transform", pre, key, lvl, b.v),
                                                     Ev("transform", post, key, lvl, a.v)>>)
                                    ELSE Stored(c.v, <<Ev("validate", fn, key, lvl, val),
                                                       Ev("pre_transform", pre, key, lvl, b.v),
                                                       Ev("transform", post, key, lvl, a.v)>>))))

\* post_transformation(validation_func(key=key, val=pre_transformation(val), **validation_args))
validate_value(pre, fn, args, post, key, val, lvl) ==
    Bind(apply_transformation(pre, val),
         LAMBDA a :
            IF ~a.ok THEN Failed(a, <<Ev("pre_transform", pre, key, lvl, val)>>)
            ELSE Bind(call_validator(fn, a.v, key, args),
                      LAMBDA b :
                        IF ~b.ok
                        THEN Failed(b, <<Ev("pre_transform", pre, key, lvl, val),
                                         Ev("validate", fn, key, lvl, a.v)>>)
                        ELSE Bind(apply_transformation(post, b.v),
                                  LAMBDA c :
                                    IF ~c.ok
                                    THEN Failed(c, <<Ev("pre_transform", pre, key, lvl, val),
                                                     Ev("validate", fn, key, lvl, a.v),
                                                     Ev("transform", post, key, lvl, b.v)>>)
                                    ELSE Stored(c.v, <<Ev("pre_transform", pre, key, lvl, val),
                                                       Ev("validate", fn, key, lvl, a.v),
                                                       Ev("transform", post, key, lvl, b.v)>>))))

\* nesting_policy with a node that only recurses handled as an associative
\* array: its validator is applied to the value
nesting_policy_aso_default(item) ==
    IF "nested" \notin DOMAIN item THEN "leaf"
    ELSE IF Truthy(item, "list") THEN "list"
    ELSE IF Truthy(item, "list_dicts") THEN "list_dicts"
    ELSE "aso_array"

\* nesting_policy with list_dicts tested before list
nesting_policy_list_dicts_first(item) ==
    IF "nested" \notin DOMAIN item THEN "leaf"
    ELSE IF Truthy(item, "list_dicts") THEN "list_dicts"
    ELSE IF Truthy(item, "list") THEN "list"
    ELSE IF ~Truthy(item, "aso_array") THEN "nested"
    ELSE "aso_array"

\* the branch of the dispatch that a present, not short-circuited field takes
nesting_policy(item) ==
    IF "nested" \notin DOMAIN item THEN "leaf"
    ELSE IF Truthy(item, "list") THEN "list"
    ELSE IF Truthy(item, "list_dicts") THEN "list_dicts"
    ELSE IF ~Truthy(item, "aso_array") THEN "nested"
    ELSE "aso_array"

\* missing_key with the optional test made first: a default is lost
missing_key_optional_first(item, key) ==
    IF Truthy(item, "optional") THEN Skipped(<<>>)
    ELSE IF "default_value" \in DOMAIN item THEN Stored(item.default_value, <<>>)
    ELSE Failed(Raise("Invalid", "missing key", key, NoneVal), <<>>)

\* missing_key with the final raise left out: every missing field without
\* a default is skipped like an optional one
missing_key_all_optional(item, key) ==
    IF "default_value" \in DOMAIN item THEN Stored(item.default_value, <<>>)
    ELSE Skipped(<<>>)

\* the except KeyError branch: the field is missing from the input
missing_key(item, key) ==
    IF "default_value" \in DOMAIN item THEN Stored(item.default_value, <<>>)
    ELSE IF Truthy(item, "optional") THEN Skipped(<<>>)
    ELSE Failed(Raise("Invalid", "missing key", key, NoneVal), <<>>)

\* the short-circuit without its null_able test: every null is stored
null_short_circuit_any_null(val, item) == val.t = "NoneType"

\* val is None and item.get('null_able')
null_short_circuit(val, item) == val.t = "NoneType" /\ Truthy(item, "null_able")

\* validated_items = dict(input_dict): the output starts as a copy of the input
new_validated_items_copy(input) == IF input.t = "dict" THEN input.d ELSE EmptyDict

\* validated_items = {} at the start of a call
new_validated_items(input) == EmptyDict

\* except Invalid as e: if not item.get('skip_failed'): raise e
swallowed(e, item) == e.exc = "Invalid" /\ Truthy(item, "skip_failed")

\* for nested_item in val: what the loop visits, or the TypeError of iter(val)
py_iter(val) == py_list(val)

RECURSIVE maat_scale_at(_, _, _)
RECURSIVE fields_loop(_, _, _, _, _, _)
RECURSIVE field(_, _, _, _)
RECURSIVE dispatch(_, _, _, _, _, _, _, _, _, _)
RECURSIVE recurse(_, _, _, _, _, _)
RECURSIVE list_loop(_, _, _, _, _, _, _, _, _, _)
RECURSIVE list_dicts_loop(_, _, _, _, _, _, _, _, _)
RECURSIVE aso_array_loop(_, _, _, _, _, _, _)

\* list_loop with each result put in front of the list: the output is in
\* reverse order
RECURSIVE list_loop_prepend(_, _, _, _, _, _, _, _, _, _)
list_loop_prepend(elems, i, acc, log, item, fn, pre, post, key, lvl) ==
    IF i > Len(elems) THEN Stored(ListVal(acc), log)
    ELSE Bind(validate_value(pre, fn, IF "args" \in DOMAIN item THEN item.args ELSE EmptyDict,
                             post, key, elems[i], lvl),
              LAMBDA r :
                IF r.ok
                THEN list_loop_prepend(elems, i + 1, <<r.v>> \o acc, log \o r.log, item, fn, pre, post, key, lvl)
                ELSE IF swallowed(r, item)
                THEN list_loop_prepend(elems, i + 1, acc, log \o r.log, item, fn, pre, post, key, lvl)
                ELSE Failed(r, log \o r.log))

\* the list policy: each element through pre_transform, validator, transform
list_loop(elems, i, acc, log, item, fn, pre, post, key, lvl) ==
    IF i > Len(elems) THEN Stored(ListVal(acc), log)
    ELSE Bind(validate_value(pre, fn, IF "args" \in DOMAIN item THEN item.args ELSE EmptyDict,
                             post, key, elems[i], lvl),
              LAMBDA r :
                IF r.ok
                THEN list_loop(elems, i + 1, Append(acc, r.v), log \o r.log, item, fn, pre, post, key, lvl)
                ELSE IF swallowed(r, item)
                THEN list_loop(elems, i + 1, acc, log \o r.log, item, fn, pre, post, key, lvl)
                ELSE Failed(r, log \o r.log))

\* post_transformation(maat_scale(pre_transformation(x), nested)), the step of
\* the list_dicts loop and the whole of the plain nested policy
recurse(pre, post, key, x, nested, lvl) ==
    LET a == apply_transformation(pre, x)
        la == <<Ev("pre_transform", pre, key, lvl, x)>>
    IN  IF ~a.ok THEN Failed(a, la)
        ELSE Bind(maat_scale_at(a.v, nested, lvl + 1),
                  LAMBDA b :
                    IF ~b.ok THEN Failed(b, la \o <<Ev("maat_scale", "", key, lvl, a.v)>> \o b.log)
                    ELSE Bind(apply_transformation(post, b.v),
                              LAMBDA c :
                                IF ~c.ok
                                THEN Failed(c, la \o <<Ev("maat_scale", "", key, lvl, a.v)>> \o b.log
                                                  \o <<Ev("transform", post, key, lvl, b.v)>>)
                                ELSE Stored(c.v, la \o <<Ev("maat_scale", "", key, lvl, a.v)>> \o b.log
                                                    \o <<Ev("transform", post, key, lvl, b.v)>>)))

\* list_dicts_loop with validated_items[key] = [] set before the loop: an
\* empty value stores an empty list
RECURSIVE list_dicts_loop_eager(_, _, _, _, _, _, _, _, _)
list_dicts_loop_eager(elems, i, acc, log, item, pre, post, key, lvl) ==
    IF i > Len(elems) THEN Stored(ListVal(acc), log)
    ELSE Bind(recurse(pre, post, key, elems[i], item.nested, lvl),
              LAMBDA r :
                IF r.ok
                THEN list_dicts_loop_eager(elems, i + 1, Append(acc, r.v), log \o r.log, item, pre, post, key, lvl)
                ELSE IF swallowed(r, item)
                THEN list_dicts_loop_eager(elems, i + 1, acc, log \o r.log, item, pre, post, key, lvl)
                ELSE Failed(r, log \o r.log))

\* the list_dicts policy, after the validator has accepted the whole value;
\* the key is stored when the first element is visited
list_dicts_loop(elems, i, acc, log, item, pre, post, key, lvl) ==
    IF i > Len(elems)
    THEN IF Len(elems) = 0 THEN Skipped(log) ELSE Stored(ListVal(acc), log)
    ELSE Bind(recurse(pre, post, key, elems[i], item.nested, lvl),
              LAMBDA r :
                IF r.ok
                THEN list_dicts_loop(elems, i + 1, Append(acc, r.v), log \o r.log, item, pre, post, key, lvl)
                ELSE IF swallowed(r, item)
                THEN list_dicts_loop(elems, i + 1, acc, log \o r.log, item, pre, post, key, lvl)
                ELSE Failed(r, log \o r.log))

\* the aso_array policy, after the validator has accepted the whole value:
\* every value of the mapping against the one nested schema
aso_array_loop(val, ks, acc, log, item, key, lvl) ==
    IF ks = <<>>
    THEN IF DOMAIN acc = {} THEN Skipped(log) ELSE Stored(DictVal(acc), log)
    ELSE Bind(maat_scale_at(val.d[Head(ks)], item.nested, lvl + 1),
              LAMBDA r :
                IF r.ok
                THEN aso_array_loop(val, Tail(ks), Put(acc, Head(ks), r.v),
                                    log \o <<Ev("maat_scale", "", key, lvl, val.d[Head(ks)])>> \o r.log,
                                    item, key, lvl)
                ELSE Failed(r, log \o <<Ev("maat_scale", "", key, lvl, val.d[Head(ks)])>> \o r.log))

\* the dispatch on the nesting policy, the lookups done (log l3)
dispatch(policy, item, val, fn, args, pre, post, key, lvl, l3) ==
    CASE policy = "leaf" ->
            Bind(validate_value(pre, fn, args, post, key, val, lvl),
                 LAMBDA r : IF r.ok THEN Stored(r.v, l3 \o r.log) ELSE Failed(r, l3 \o r.log))
      [] policy = "list" ->
            Bind(py_iter(val),
                 LAMBDA it : IF ~it.ok THEN Failed(it, l3)
                             ELSE list_loop(it.v.q, 1, <<>>, l3, item, fn, pre, post, key, lvl))
      [] policy = "list_dicts" ->
            Bind(call_validator(fn, val, key, args),
                 LAMBDA w :
                    IF ~w.ok THEN Failed(w, l3 \o <<Ev("validate", fn, key, lvl, val)>>)
                    ELSE Bind(py_iter(val),
                              LAMBDA it :
                                IF ~it.ok THEN Failed(it, l3 \o <<Ev("validate", fn, key, lvl, val)>>)
                                ELSE list_dicts_loop(it.v.q, 1, <<>>,
                                                     l3 \o <<Ev("validate", fn, key, lvl, val)>>,
                                                     item, pre, post, key, lvl)))
      [] policy = "nested" ->
            Bind(recurse(pre, post, key, val, item.nested, lvl),
                 LAMBDA r : IF r.ok THEN Stored(r.v, l3 \o r.log) ELSE Failed(r, l3 \o r.log))
      [] policy = "aso_array" ->
            Bind(call_validator(fn, val, key, args),
                 LAMBDA w :
                    IF ~w.ok THEN Failed(w, l3 \o <<Ev("validate", fn, key, lvl, val)>>)
                    ELSE IF val.t # "dict"
                    THEN Failed(Raise("AttributeError", "object has no attribute 'iteritems'", "", val),
                                l3 \o <<Ev("validate", fn, key, lvl, val)>>)
                    ELSE aso_array_loop(val, KeysInOrder(val.d, order), EmptyDict,
                                        l3 \o <<Ev("validate", fn, key, lvl, val)>>, item, key, lvl))

\* try: val = input_dict[key]: how the subscription ends for a text key
subscript(input, key) ==
    IF input.t # "dict" THEN "TypeError"
    ELSE IF key \notin DOMAIN input.d THEN "KeyError"
    ELSE "value"

\* one pass of the loop over counter_dict: the field key of input_dict
field(input, counter, key, lvl) ==
    LET item == counter[key]
        got == subscript(input, key)
    IN  IF got = "TypeError"
        THEN Failed(Raise("Invalid", "not a dictionary but is of type", "", input), <<>>)
        ELSE IF got = "KeyError"
        THEN missing_key(item, key)
        ELSE
        LET val == input.d[key]
            vf == get_validation_func(item)
            args == IF "args" \in DOMAIN item THEN item.args ELSE EmptyDict
            pre == get_transformation_func(item, "pre_transform")
            post == get_transformation_func(item, "transform")
            l1 == <<Ev("get_validation_func", "", key, lvl, NoneVal)>>
            l2 == l1 \o <<Ev("get_transformation_func", "pre_transform", key, lvl, NoneVal)>>
            l3 == l2 \o <<Ev("get_transformation_func", "transform", key, lvl, NoneVal)>>
        IN  IF null_short_circuit(val, item) THEN Stored(NoneVal, <<>>)
            ELSE IF ~vf.ok THEN Failed(vf, l1)
            ELSE IF ~pre.ok THEN Failed(pre, l2)
            ELSE IF ~post.ok THEN Failed(post, l3)
            ELSE dispatch(nesting_policy(item), item, val, vf.v, args, pre.v, post.v, key, lvl, l3)

\* fields_loop with return validated_items inside the loop: the call returns
\* after the first field it visits
fields_loop_first_only(input, counter, ks, validated_items, log, lvl) ==
    IF ks = <<>>
    THEN [ok |-> TRUE, v |-> DictVal(validated_items), log |-> log]
    ELSE Bind(field(input, counter, Head(ks), lvl),
              LAMBDA r :
                IF ~r.ok THEN Failed(r, log \o r.log)
                ELSE [ok |-> TRUE,
                      v |-> DictVal(IF r.set THEN Put(validated_items, Head(ks), r.v)
                                    ELSE validated_items),
                      log |-> log \o r.log])

\* fields_loop with the exception of a field caught and the items validated
\* so far returned
RECURSIVE fields_loop_partial(_, _, _, _, _, _)
fields_loop_partial(input, counter, ks, validated_items, log, lvl) ==
    IF ks = <<>>
    THEN [ok |-> TRUE, v |-> DictVal(validated_items), log |-> log]
    ELSE Bind(field(input, counter, Head(ks), lvl),
              LAMBDA r :
                IF ~r.ok THEN [ok |-> TRUE, v |-> DictVal(validated_items), log |-> log \o r.log]
                ELSE fields_loop_partial(input, counter, Tail(ks),
                                 IF r.set THEN Put(validated_items, Head(ks), r.v) ELSE validated_items,
                                 log \o r.log, lvl))

\* for key, item in counter_dict.iteritems(): ... return validated_items
fields_loop(input, counter, ks, validated_items, log, lvl) ==
    IF ks = <<>>
    THEN [ok |-> TRUE, v |-> DictVal(validated_items), log |-> log]
    ELSE Bind(field(input, counter, Head(ks), lvl),
              LAMBDA r :
                IF ~r.ok THEN Failed(r, log \o r.log)
                ELSE fields_loop(input, counter, Tail(ks),
                                 IF r.set THEN Put(validated_items, Head(ks), r.v) ELSE validated_items,
                                 log \o r.log, lvl))

\* maat_scale(input_dict, counter_dict) called at recursion depth lvl; a
\* counter_dict that is no dict (nested: True) has no iteritems
maat_scale_at(input, counter, lvl) ==
    IF counter.t # "dict"
    THEN Failed(Raise("AttributeError", "object has no attribute 'iteritems'", "", counter), <<>>)
    ELSE fields_loop(input, counter.d, KeysInOrder(counter.d, order),
                     new_validated_items(input), <<>>, lvl)

maat_scale(input, counter) == maat_scale_at(input, counter, 0)

(***************************************************************************)
(* The calls drawn: a schema for the field "f", beside it the field "id"   *)
(* of the tests' schema, and an input that holds or lacks "f" and "id"     *)
(* and holds the key "z" no schema names.                                  *)
(***************************************************************************)
NoKeys == <<>>

\* the schema keys, the keys of associative arrays and the nested key
AllKeys == <<"f", "id", "k1", "k2", "street", "z">>
Reverse(q) == [i \in 1..Len(q) |-> q[Len(q) + 1 - i]]
Orders == {AllKeys, Reverse(AllKeys)}

Texts == {"2", "ok", "blacklisted"}
Scalars == {NoneVal, FloatVal(15)} \cup {IntVal(i) : i \in -1..MaxInt} \cup {StrVal(w) : w \in Texts}

\* lists of at most MaxLen elements of E
ListsOf(E) == {ListVal(q) : q \in UNION {[1..n -> E] : n \in 0..MaxLen}}

\* dicts over at most MaxLen of the keys K with values of E
DictsOf(K, E) ==
    {DictVal(d) : d \in UNION {[D -> E] : D \in {D \in SUBSET K : Cardinality(D) <= MaxLen}}}

\* the parts a schema node is put together from
ValidatorParts ==
    {NoKeys, [validator |-> "int"], [validator |-> "int", args |-> [min_amount |-> 1]],
     [validator |-> "str"], [validator |-> "valid_address"], [validator |-> "integer"]}
PreParts == {NoKeys, [pre_transform |-> "int"], [pre_transform |-> "integer"]}
PostParts == {NoKeys, [transform |-> "str"], [transform |-> "integer"]}
PresenceParts ==
    {NoKeys, [optional |-> TRUE], [default_value |-> StrVal("ok")],
     [optional |-> TRUE, default_value |-> NoneVal]}
NullParts == {NoKeys, [null_able |-> TRUE]}
SkipParts == {NoKeys, [skip_failed |-> TRUE]}

Schema(f) == DictVal(f)
StreetSchemas ==
    {Schema([street |-> [validator |-> "valid_address"]]),
     Schema([street |-> [validator |-> "str", optional |-> TRUE]]),
     Schema([street |-> [validator |-> "int", pre_transform |-> "int", transform |-> "str"]])}
\* a schema that is empty, and a nested entry that is no schema at all
EmptySchema == Schema(NoKeys)
NotASchema == [t |-> "bool", b |-> TRUE]
\* a schema two levels deep: a plain nested field, a list, a list of dicts
DeepSchemas ==
    {Schema([k1 |-> [validator |-> "dict", nested |-> n]]) : n \in StreetSchemas}
    \cup {Schema([k1 |-> [validator |-> "valid_address", nested |-> NotASchema, list |-> TRUE] @@ sk]) : sk \in SkipParts}
    \cup {Schema([k1 |-> [validator |-> "list", list_dicts |-> TRUE,
                          nested |-> Schema([street |-> [validator |-> "valid_address"]])] @@ sk]) : sk \in SkipParts}

LeafNodes ==
    {v @@ a @@ b @@ p @@ n : v \in ValidatorParts, a \in PreParts, b \in PostParts,
                             p \in PresenceParts, n \in NullParts}
LeafValues == Scalars \cup {ListVal(<<>>), DictVal(NoKeys)}

ListNodes ==
    {[nested |-> NotASchema, list |-> TRUE] @@ v @@ a @@ b @@ sk @@ n :
        v \in {[validator |-> "int", args |-> [min_amount |-> 1]], [validator |-> "valid_address"],
               [validator |-> "integer"]},
        a \in {NoKeys, [pre_transform |-> "int"]}, b \in {NoKeys, [transform |-> "str"]},
        sk \in SkipParts, n \in NullParts}
ListElements == {NoneVal, IntVal(0), IntVal(1), StrVal("2"), StrVal("ok"), StrVal("blacklisted")}
ListValues ==
    ListsOf(ListElements)
    \cup {NoneVal, IntVal(1), StrVal("ok"), TupleVal(<<StrVal("ok"), StrVal("blacklisted")>>),
          DictVal([k1 |-> IntVal(1)])}

StreetDicts ==
    {DictVal(NoKeys), DictVal([street |-> StrVal("ok")]), DictVal([street |-> StrVal("blacklisted")]),
     DictVal([street |-> IntVal(1)]), DictVal([street |-> StrVal("ok"), z |-> IntVal(1)])}

ListDictsNodes ==
    {[list_dicts |-> TRUE, nested |-> ns] @@ v @@ a @@ b @@ sk :
        ns \in StreetSchemas \cup {EmptySchema, NotASchema},
        v \in {[validator |-> "list"], [validator |-> "list", args |-> [min_amount |-> 2]],
               [validator |-> "valid_address"]},
        a \in {NoKeys}, b \in {NoKeys, [transform |-> "json"]},
        sk \in SkipParts}
ListDictsValues ==
    ListsOf(StreetDicts \cup {IntVal(1)}) \cup {NoneVal, IntVal(1), DictVal([k1 |-> DictVal(NoKeys)])}

NestedNodes ==
    {[nested |-> ns] @@ v @@ a @@ b @@ p :
        ns \in StreetSchemas \cup DeepSchemas \cup {EmptySchema, NotASchema},
        v \in {NoKeys, [validator |-> "dict"], [validator |-> "dict", args |-> [min_amount |-> 2]],
               [validator |-> "list"], [validator |-> "integer"]},
        a \in {NoKeys, [pre_transform |-> "json_dict"]}, b \in {NoKeys, [transform |-> "json"]},
        p \in {NoKeys, [aso_array |-> FALSE]}}
DeepDicts ==
    {DictVal([k1 |-> x]) : x \in StreetDicts \cup ListsOf({StrVal("ok"), StrVal("blacklisted")})
                                 \cup ListsOf({DictVal([street |-> StrVal("ok")]),
                                               DictVal([street |-> StrVal("blacklisted")])})}
NestedValues == StreetDicts \cup DeepDicts \cup {NoneVal, IntVal(1), ListVal(<<>>), StrVal("2")}

AsoArrayNodes ==
    {[aso_array |-> TRUE, nested |-> ns] @@ v @@ b :
        ns \in StreetSchemas \cup {EmptySchema, NotASchema},
        v \in {[validator |-> "dict"], [validator |-> "dict", args |-> [min_amount |-> 1]],
               [validator |-> "valid_address"], [validator |-> "list"]},
        b \in {NoKeys, [transform |-> "json"]}}
AsoArrayValues ==
    DictsOf({"k1", "k2", "street"}, StreetDicts \cup {IntVal(1)})
    \cup {NoneVal, IntVal(1), ListVal(<<>>)}

\* the node of "f" with the values "f" takes under it; Absent: "f" is missing
Absent == [t |-> "absent"]
FieldCases ==
    (LeafNodes \X (LeafValues \cup {Absent}))
    \cup (ListNodes \X (ListValues \cup {Absent}))
    \cup (ListDictsNodes \X (ListDictsValues \cup {Absent}))
    \cup (NestedNodes \X (NestedValues \cup {Absent}))
    \cup (AsoArrayNodes \X (AsoArrayValues \cup {Absent}))

\* 'id': {'validator': 'int', 'args': {'min_amount': 1}} of the tests
IdNode == [validator |-> "int", args |-> [min_amount |-> 1]]

\* the rest of the call: whether the schema names "id", and what the input
\* holds beside "f"
Companions ==
    {[id |-> FALSE, rest |-> [z |-> IntVal(1)]],
     [id |-> TRUE, rest |-> [id |-> IntVal(1), z |-> IntVal(1)]],
     [id |-> TRUE, rest |-> [id |-> IntVal(0)]]}

SchemaOf(node, c) == Schema(IF c.id THEN [f |-> node, id |-> IdNode] ELSE [f |-> node])
InputOf(val, c) == DictVal(IF val = Absent THEN c.rest ELSE Put(c.rest, "f", val))

\* inputs that are no mapping
NonMappings ==
    {ListVal(<<StrVal("id"), FloatVal(15)>>), TupleVal(<<StrVal("id"), FloatVal(15)>>),
     ListVal(<<>>), NoneVal, IntVal(1), StrVal("ok"), FloatVal(15)}

(***************************************************************************)
(* The state machine: a call of maat_scale on input_dict and counter_dict  *)
(* under the dict iteration order `order`, and before it the registration  *)
(* of the tests' validator.  order is the order in which the loops of      *)
(* maat_scale visit the schema's fields and an associative array's keys;   *)
(* key_order is the order in which str(), list() and json.dumps() visit    *)
(* the keys of a dict value.  One build iterates every dict alike.         *)
(***************************************************************************)
Init ==
    /\ registered_functions = builtin_functions
    /\ order \in Orders
    /\ key_order = order
    /\ \/ \E fc \in FieldCases, c \in Companions :
            /\ counter_dict = SchemaOf(fc[1], c)
            /\ input_dict = InputOf(fc[2], c)
       \/ /\ input_dict \in NonMappings
          /\ counter_dict \in {SchemaOf(n, c) : n \in LeafNodes, c \in Companions} \cup {EmptySchema}
    /\ result = [done |-> FALSE]

\* validated_items = maat_scale(input_dict, counter_dict)
Call ==
    /\ ~result.done
    /\ result' = [done |-> TRUE] @@ maat_scale(input_dict, counter_dict)
    /\ UNCHANGED <<registered_functions, input_dict, counter_dict, order, key_order>>

\* registered_functions['valid_address'] = blacklist_address
Register ==
    /\ ~result.done
    /\ "valid_address" \notin DOMAIN registered_functions
    /\ registered_functions' = registered_functions @@ [valid_address |-> "blacklist_address"]
    /\ UNCHANGED <<input_dict, counter_dict, order, key_order, result>>

Next == Call \/ Register

Spec == Init /\ [][Next]_vars

(***************************************************************************)
(* What the properties speak of.                                           *)
(***************************************************************************)
Done == result.done
Succeeded == result.done /\ result.ok
\* the validated_items a successful call returns
Output == result.v.d
SchemaKeys == DOMAIN counter_dict.d
Node(k) == counter_dict.d[k]
IsMapping == input_dict.t = "dict"
Missing(k) == IsMapping /\ k \notin DOMAIN input_dict.d
Held(k) == IsMapping /\ k \in DOMAIN input_dict.d
\* the steps the top-level call logged for field k
EventsOf(k) == {i \in 1..Len(result.log) : result.log[i].key = k /\ result.log[i].lvl = 0}
\* the position of key k in the iteration order
Position(k) == CHOOSE i \in 1..Len(order) : order[i] = k
\* the schema fields the loop visits before k
Before(k) == {j \in SchemaKeys : Position(j) < Position(k)}
\* the loop gets to field k: every field visited before it raises nothing
Reached(k) == \A j \in Before(k) : field(input_dict, counter_dict.d, j, 0).ok

(***************************************************************************)
(* C1.  A successful call returns only keys the schema names: the keys of  *)
(* the output are among the schema's keys, and so are, one level down, the *)
(* keys of the mapping stored for a plain nested field and of every        *)
(* mapping stored for a list_dicts field (no transform set); a key of the  *)
(* input the schema does not name, such as "z", is never in the output.    *)
(***************************************************************************)
C1_OutputKeysWithinSchema ==
    Succeeded =>
        /\ DOMAIN Output \subseteq SchemaKeys
        /\ \A k \in DOMAIN Output :
            (/\ Held(k) /\ "transform" \notin DOMAIN Node(k)
             /\ Output[k].t # "NoneType"
             /\ nesting_policy(Node(k)) \in {"nested", "list_dicts"}) =>
                IF nesting_policy(Node(k)) = "nested"
                THEN DOMAIN Output[k].d \subseteq DOMAIN Node(k).nested.d
                ELSE \A i \in 1..Len(Output[k].q) :
                        DOMAIN Output[k].q[i].d \subseteq DOMAIN Node(k).nested.d

\* a call succeeds on an input that holds "z" beside a nested mapping that
\* holds "z" too, and stores the nested mapping
C1_Witness ==
    /\ Succeeded /\ Held("z") /\ Held("f") /\ "f" \in DOMAIN Output
    /\ nesting_policy(Node("f")) = "nested"
    /\ input_dict.d["f"].t = "dict" /\ "z" \in DOMAIN input_dict.d["f"].d
    /\ Output["f"].t = "dict" /\ "street" \in DOMAIN Output["f"].d

(***************************************************************************)
(* C2.  A schema field missing from the input whose node sets              *)
(* default_value, with optional or without, is in the output of a          *)
(* successful call with exactly the default value, and the call looked up  *)
(* no validator and no transformation for it and applied none.             *)
(***************************************************************************)
C2_DefaultSubstituted ==
    Succeeded =>
        \A k \in SchemaKeys :
            (Missing(k) /\ "default_value" \in DOMAIN Node(k)) =>
                /\ k \in DOMAIN Output
                /\ Output[k] = Node(k).default_value
                /\ EventsOf(k) = {}

\* the default of a field whose validator is not registered and that is
\* also optional is stored
C2_Witness ==
    /\ Succeeded /\ Missing("f")
    /\ "default_value" \in DOMAIN Node("f") /\ Truthy(Node("f"), "optional")
    /\ "validator" \in DOMAIN Node("f") /\ Node("f").validator \notin DOMAIN registered_functions
    /\ Output["f"] = Node("f").default_value

(***************************************************************************)
(* C3.  A schema field missing from the input whose node sets no           *)
(* default_value: with optional set the field is skipped, its key is not   *)
(* in the output; otherwise the call fails, and with the missing-key error *)
(* naming the key when the loop gets to the field.                         *)
(***************************************************************************)
C3_MissingWithoutDefault ==
    Done =>
        \A k \in SchemaKeys :
            (Missing(k) /\ "default_value" \notin DOMAIN Node(k)) =>
                IF Truthy(Node(k), "optional")
                THEN result.ok => k \notin DOMAIN Output
                ELSE /\ ~result.ok
                     /\ Reached(k) =>
                            /\ result.exc = "Invalid" /\ result.rule = "missing key"
                            /\ result.key = k

\* "f" is missing and required, the loop has passed "id" before it, and the
\* call fails naming "f"
C3_Witness ==
    /\ Done /\ Missing("f") /\ "id" \in Before("f")
    /\ "default_value" \notin DOMAIN Node("f") /\ ~Truthy(Node("f"), "optional")
    /\ ~result.ok /\ result.rule = "missing key" /\ result.key = "f"

\* the value the input holds under k
Value(k) == input_dict.d[k]
\* the args of node k, {} when unset
ArgsOf(k) == IF "args" \in DOMAIN Node(k) THEN Node(k).args ELSE EmptyDict
\* the transformation node k names under name, the identity when it names none
Transformed(k, name, x) ==
    IF name \in DOMAIN Node(k) THEN apply_transformation(Node(k)[name], x) ELSE Return(x)
\* the validator and both transformations of node k are registered
LookupsFound(k) ==
    /\ "validator" \in DOMAIN Node(k) /\ Node(k).validator \in DOMAIN registered_functions
    /\ \A name \in {"pre_transform", "transform"} :
            name \in DOMAIN Node(k) => Node(k)[name] \in registered_transformation
\* the validator of node k applied to x
Validated(k, x) == call_validator(registered_functions[Node(k).validator], x, k, ArgsOf(k))
\* the steps of kind op the top-level call logged for field k
Steps(k, op) == {i \in EventsOf(k) : result.log[i].op = op}
\* the call raised the exception e
RaisedAs(e) ==
    /\ ~result.ok /\ result.exc = e.exc /\ result.rule = e.rule
    /\ result.key = e.key /\ result.val = e.val
\* every schema field but k raises nothing
OthersPass(k) == \A j \in SchemaKeys \ {k} : field(input_dict, counter_dict.d, j, 0).ok

(***************************************************************************)
(* C4.  A call whose input is not a mapping fails with the not-a-mapping   *)
(* error that carries the input, for every schema.  The code raises the    *)
(* error from the subscription of the first schema field, so a schema      *)
(* without fields returns {} for such an input: the statement is violated. *)
(***************************************************************************)
C4_NonMappingRejected ==
    (Done /\ ~IsMapping) =>
        /\ ~result.ok /\ result.exc = "Invalid"
        /\ result.rule = "not a dictionary but is of type"
        /\ result.val = input_dict

\* what the code does: the error is raised when the schema has a field,
\* whatever the field's optional and default_value, and {} is returned when
\* it has none
C4_NonMappingRejectedAtFirstField ==
    (Done /\ ~IsMapping) =>
        IF SchemaKeys # {}
        THEN /\ ~result.ok /\ result.exc = "Invalid"
             /\ result.rule = "not a dictionary but is of type"
             /\ result.val = input_dict
        ELSE result.ok /\ Output = EmptyDict

\* a list is rejected although the first field visited is optional and has
\* a default
C4_Witness ==
    /\ Done /\ input_dict.t = "list" /\ "f" \in SchemaKeys
    /\ "id" \notin Before("f")
    /\ Truthy(Node("f"), "optional") /\ "default_value" \in DOMAIN Node("f")
    /\ ~result.ok /\ result.rule = "not a dictionary but is of type"

(***************************************************************************)
(* C5.  A schema field whose value in the input is null: with null_able    *)
(* set the output of a successful call holds null under the key and the    *)
(* call looked up and applied nothing for the field; with null_able unset  *)
(* the field takes the normal path once the loop gets to it: its validator *)
(* is looked up, and a leaf whose registered validator rejects null, no    *)
(* pre_transform set, fails the call with the validator's error.           *)
(***************************************************************************)
C5_NullShortCircuit ==
    Done =>
        \A k \in SchemaKeys :
            (Held(k) /\ Value(k) = NoneVal) =>
                IF Truthy(Node(k), "null_able")
                THEN /\ EventsOf(k) = {}
                     /\ result.ok => (k \in DOMAIN Output /\ Output[k] = NoneVal)
                ELSE Reached(k) =>
                        /\ Steps(k, "get_validation_func") # {}
                        /\ (/\ LookupsFound(k) /\ nesting_policy(Node(k)) = "leaf"
                            /\ "pre_transform" \notin DOMAIN Node(k)
                            /\ ~Validated(k, NoneVal).ok) => RaisedAs(Validated(k, NoneVal))

\* null under a null_able field whose validator is int is stored as null
C5_Witness ==
    /\ Succeeded /\ Held("f") /\ Value("f") = NoneVal
    /\ Truthy(Node("f"), "null_able")
    /\ "validator" \in DOMAIN Node("f") /\ Node("f").validator = "int"
    /\ Output["f"] = NoneVal

(***************************************************************************)
(* C6.  A leaf field present in the input, not short-circuited, with       *)
(* registered validator and transformations, once the loop gets to it:     *)
(* pre_transform is applied to the value, the validator to the             *)
(* pre-transformed value, transform to what the validator returns, an      *)
(* unset transformation being the identity; the first of the three that    *)
(* raises fails the call with its exception, and when none raises the      *)
(* steps are logged in this order with these arguments and a successful    *)
(* call stores the transform's result under the key.                       *)
(***************************************************************************)
C6_LeafPipeline ==
    Done =>
        \A k \in SchemaKeys :
            (/\ Held(k) /\ ~null_short_circuit(Value(k), Node(k))
             /\ nesting_policy(Node(k)) = "leaf" /\ LookupsFound(k) /\ Reached(k)) =>
                LET a == Transformed(k, "pre_transform", Value(k))
                IN  IF ~a.ok THEN RaisedAs(a)
                    ELSE LET b == Validated(k, a.v)
                         IN  IF ~b.ok THEN RaisedAs(b)
                             ELSE LET c == Transformed(k, "transform", b.v)
                                  IN  IF ~c.ok THEN RaisedAs(c)
                                      ELSE /\ \E i \in Steps(k, "pre_transform"),
                                                 j \in Steps(k, "validate"),
                                                 l \in Steps(k, "transform") :
                                                /\ i < j /\ j < l
                                                /\ result.log[i].val = Value(k)
                                                /\ result.log[j].val = a.v
                                                /\ result.log[l].val = b.v
                                           /\ result.ok => (k \in DOMAIN Output /\ Output[k] = c.v)
                                           /\ OthersPass(k) => result.ok

\* the text "2" is made the integer 2 before the int validator sees it and
\* the text "2" again after it
C6_Witness ==
    /\ Succeeded /\ Held("f") /\ Value("f") = StrVal("2")
    /\ nesting_policy(Node("f")) = "leaf"
    /\ "pre_transform" \in DOMAIN Node("f") /\ Node("f").pre_transform = "int"
    /\ "validator" \in DOMAIN Node("f") /\ Node("f").validator = "int"
    /\ "transform" \in DOMAIN Node("f") /\ Node("f").transform = "str"
    /\ \E j \in Steps("f", "validate") : result.log[j].val = IntVal(2)
    /\ Output["f"] = StrVal("2")

\* field k is present, not short-circuited, under the policy p, its lookups
\* succeed and the loop gets to it
Under(k, p) ==
    /\ Held(k) /\ ~null_short_circuit(Value(k), Node(k))
    /\ nesting_policy(Node(k)) = p /\ LookupsFound(k) /\ Reached(k)
\* pre_transform, validator and transform of node k on the list element x:
\* the transform's result or the first exception
Piped(k, x) ==
    LET a == Transformed(k, "pre_transform", x)
    IN  IF ~a.ok THEN a
        ELSE LET b == Validated(k, a.v)
             IN  IF ~b.ok THEN b ELSE Transformed(k, "transform", b.v)
\* pre_transform, the recursive call against nested and transform of node k
\* on x: the transform's result or the first exception
Recursed(k, x) ==
    LET a == Transformed(k, "pre_transform", x)
    IN  IF ~a.ok THEN a
        ELSE LET b == maat_scale_at(a.v, Node(k).nested, 1)
             IN  IF ~b.ok THEN b ELSE Transformed(k, "transform", b.v)
IsSequence(x) == x.t \in {"list", "tuple"}
Least(S) == CHOOSE i \in S : \A j \in S : i <= j

(***************************************************************************)
(* C7.  A field under the list policy whose value is a list: with          *)
(* skip_failed set the call succeeds (the other fields passing) and the    *)
(* output list is as long as the number of elements that pass              *)
(* pre_transform, validator and transform; without skip_failed the first   *)
(* element that fails makes the call fail with its error.  An element on   *)
(* which a transformation raises ValueError or TypeError is not dropped    *)
(* under skip_failed, the exception leaves the call: the statement is      *)
(* violated.                                                               *)
(***************************************************************************)
C7_ListSkipFailed ==
    Done =>
        \A k \in SchemaKeys :
            (Under(k, "list") /\ IsSequence(Value(k))) =>
                LET q == Value(k).q
                    Passing == {i \in 1..Len(q) : Piped(k, q[i]).ok}
                    Failing == (1..Len(q)) \ Passing
                IN  IF Truthy(Node(k), "skip_failed")
                    THEN /\ OthersPass(k) => result.ok
                         /\ result.ok => (/\ k \in DOMAIN Output /\ Output[k].t = "list"
                                          /\ Len(Output[k].q) = Cardinality(Passing))
                    ELSE Failing # {} => RaisedAs(Piped(k, q[Least(Failing)]))

\* what the code does: under skip_failed only the elements that raise
\* Invalid are dropped, the first element that raises another exception
\* fails the call with it
C7_ListSkipInvalid ==
    Done =>
        \A k \in SchemaKeys :
            (Under(k, "list") /\ IsSequence(Value(k))) =>
                LET q == Value(k).q
                    Passing == {i \in 1..Len(q) : Piped(k, q[i]).ok}
                    Failing == (1..Len(q)) \ Passing
                    Escaping == {i \in Failing : Piped(k, q[i]).exc # "Invalid"}
                    Aborting == IF Truthy(Node(k), "skip_failed") THEN Escaping ELSE Failing
                IN  IF Aborting # {} THEN RaisedAs(Piped(k, q[Least(Aborting)]))
                    ELSE /\ OthersPass(k) => result.ok
                         /\ result.ok => (/\ k \in DOMAIN Output /\ Output[k].t = "list"
                                          /\ Len(Output[k].q) = Cardinality(Passing))

\* under skip_failed and the runtime-registered validator the blacklisted
\* element of two is dropped and the call succeeds
C7_Witness ==
    /\ Succeeded /\ Under("f", "list") /\ Truthy(Node("f"), "skip_failed")
    /\ Node("f").validator = "valid_address"
    /\ Value("f") = ListVal(<<StrVal("blacklisted"), StrVal("ok")>>)
    /\ Output["f"] = ListVal(<<StrVal("ok")>>)

(***************************************************************************)
(* C8.  A field under the list_dicts policy: the validator with the args   *)
(* is applied to the whole value before any element is processed, and its  *)
(* failure fails the call, skip_failed set or not; then each element of a  *)
(* list goes through the recursive call against nested and the results     *)
(* are collected into a list, a failing element being dropped under        *)
(* skip_failed and failing the call otherwise.  An element on which the    *)
(* recursion raises ValueError or TypeError (a transformation of the       *)
(* nested schema that cannot convert) is not dropped under skip_failed:    *)
(* the statement is violated.                                              *)
(***************************************************************************)
C8_ListDictsValidatorFirst ==
    Done =>
        \A k \in SchemaKeys :
            Under(k, "list_dicts") =>
                LET w == Validated(k, Value(k))
                IN  IF ~w.ok
                    THEN RaisedAs(w) /\ Steps(k, "maat_scale") = {}
                    ELSE /\ \E j \in Steps(k, "validate") :
                                /\ result.log[j].val = Value(k)
                                /\ \A i \in Steps(k, "maat_scale") \cup Steps(k, "pre_transform") : j < i
                         /\ (IsSequence(Value(k)) /\ Value(k).q # <<>>) =>
                                LET q == Value(k).q
                                    Passing == {i \in 1..Len(q) : Recursed(k, q[i]).ok}
                                    Failing == (1..Len(q)) \ Passing
                                IN  IF Truthy(Node(k), "skip_failed")
                                    THEN /\ OthersPass(k) => result.ok
                                         /\ result.ok => (/\ k \in DOMAIN Output /\ Output[k].t = "list"
                                                          /\ Len(Output[k].q) = Cardinality(Passing))
                                    ELSE Failing # {} => RaisedAs(Recursed(k, q[Least(Failing)]))

\* what the code does: the same, but under skip_failed only the elements
\* that raise Invalid are dropped
C8_ListDictsInvalidDropped ==
    Done =>
        \A k \in SchemaKeys :
            Under(k, "list_dicts") =>
                LET w == Validated(k, Value(k))
                IN  IF ~w.ok
                    THEN RaisedAs(w) /\ Steps(k, "maat_scale") = {}
                    ELSE /\ \E j \in Steps(k, "validate") :
                                /\ result.log[j].val = Value(k)
                                /\ \A i \in Steps(k, "maat_scale") \cup Steps(k, "pre_transform") : j < i
                         /\ (IsSequence(Value(k)) /\ Value(k).q # <<>>) =>
                                LET q == Value(k).q
                                    Passing == {i \in 1..Len(q) : Recursed(k, q[i]).ok}
                                    Failing == (1..Len(q)) \ Passing
                                    Escaping == {i \in Failing : Recursed(k, q[i]).exc # "Invalid"}
                                    Aborting == IF Truthy(Node(k), "skip_failed") THEN Escaping ELSE Failing
                                IN  IF Aborting # {} THEN RaisedAs(Recursed(k, q[Least(Aborting)]))
                                    ELSE /\ OthersPass(k) => result.ok
                                         /\ result.ok => (/\ k \in DOMAIN Output /\ Output[k].t = "list"
                                                          /\ Len(Output[k].q) = Cardinality(Passing))

\* the list validator rejects a list of one element for min_amount 2 and
\* the call fails under skip_failed, no element processed
C8_Witness ==
    /\ Done /\ Under("f", "list_dicts") /\ Truthy(Node("f"), "skip_failed")
    /\ Node("f").validator = "list" /\ ArgsOf("f") # EmptyDict
    /\ IsSequence(Value("f")) /\ Len(Value("f").q) = 1
    /\ ~result.ok /\ result.exc = "Invalid" /\ result.key = "f"
    /\ Steps("f", "validate") # {} /\ Steps("f", "maat_scale") = {}

(***************************************************************************)
(* C9.  A field under the aso_array policy of a successful call, its value *)
(* a mapping of any size: the output holds under the key a mapping with    *)
(* exactly the keys of the input mapping, each value the result of         *)
(* validating the input's value against the one nested schema.  For the    *)
(* empty mapping the code stores nothing under the key: the statement is   *)
(* violated.                                                               *)
(***************************************************************************)
C9_AsoArraySameKeys ==
    Succeeded =>
        \A k \in SchemaKeys :
            (Under(k, "aso_array") /\ Value(k).t = "dict") =>
                /\ k \in DOMAIN Output /\ Output[k].t = "dict"
                /\ DOMAIN Output[k].d = DOMAIN Value(k).d
                /\ \A nk \in DOMAIN Value(k).d :
                        LET r == maat_scale_at(Value(k).d[nk], Node(k).nested, 1)
                        IN  r.ok /\ Output[k].d[nk] = r.v

\* what the code does: the same for a mapping that is not empty, and no
\* key in the output for the empty mapping
C9_AsoArrayNonEmpty ==
    Succeeded =>
        \A k \in SchemaKeys :
            (Under(k, "aso_array") /\ Value(k).t = "dict") =>
                IF DOMAIN Value(k).d = {} THEN k \notin DOMAIN Output
                ELSE /\ k \in DOMAIN Output /\ Output[k].t = "dict"
                     /\ DOMAIN Output[k].d = DOMAIN Value(k).d
                     /\ \A nk \in DOMAIN Value(k).d :
                            LET r == maat_scale_at(Value(k).d[nk], Node(k).nested, 1)
                            IN  r.ok /\ Output[k].d[nk] = r.v

\* a mapping of two keys is stored with its two keys, the key "z" of one of
\* its values left out
C9_Witness ==
    /\ Succeeded /\ Under("f", "aso_array")
    /\ Value("f").t = "dict" /\ DOMAIN Value("f").d = {"k1", "k2"}
    /\ Value("f").d["k1"].t = "dict" /\ "z" \in DOMAIN Value("f").d["k1"].d
    /\ DOMAIN Output["f"].d = {"k1", "k2"}
    /\ DOMAIN Output["f"].d["k1"].d = {"street"}

(***************************************************************************)
(* C10.  A call either returns an output or raises, and a raising call     *)
(* returns no output; it returns exactly when every schema field raises    *)
(* nothing, and the output then holds every field that stored a value.     *)
(* The exception of the recursion is the exception of the call: of the     *)
(* recursive call of a plain nested field, of the first failing value of   *)
(* an aso_array mapping, of the first failing element of a list or         *)
(* list_dicts field without skip_failed, and, two levels down, of the      *)
(* validator of the field "street" under the plain nested "k1" under a     *)
(* plain nested field.                                                     *)
(***************************************************************************)
C10_FailurePropagates ==
    Done =>
        /\ IF result.ok THEN "v" \in DOMAIN result /\ result.v.t = "dict"
           ELSE "v" \notin DOMAIN result /\ "exc" \in DOMAIN result
        /\ result.ok <=> \A k \in SchemaKeys : field(input_dict, counter_dict.d, k, 0).ok
        /\ result.ok =>
                \A k \in SchemaKeys :
                    LET r == field(input_dict, counter_dict.d, k, 0)
                    IN  IF r.set THEN k \in DOMAIN Output /\ Output[k] = r.v
                        ELSE k \notin DOMAIN Output
        /\ \A k \in SchemaKeys :
            /\ Under(k, "nested") =>
                    (~Recursed(k, Value(k)).ok => RaisedAs(Recursed(k, Value(k))))
            /\ (/\ Under(k, "aso_array") /\ Value(k).t = "dict"
                /\ Validated(k, Value(k)).ok) =>
                    LET ks == KeysInOrder(Value(k).d, order)
                        Failing == {i \in 1..Len(ks) :
                                        ~maat_scale_at(Value(k).d[ks[i]], Node(k).nested, 1).ok}
                    IN  Failing # {} =>
                            RaisedAs(maat_scale_at(Value(k).d[ks[Least(Failing)]], Node(k).nested, 1))
            /\ (/\ Under(k, "list") /\ IsSequence(Value(k))
                /\ ~Truthy(Node(k), "skip_failed")) =>
                    LET Failing == {i \in 1..Len(Value(k).q) : ~Piped(k, Value(k).q[i]).ok}
                    IN  Failing # {} => RaisedAs(Piped(k, Value(k).q[Least(Failing)]))
            /\ (/\ Under(k, "list_dicts") /\ IsSequence(Value(k))
                /\ Validated(k, Value(k)).ok /\ ~Truthy(Node(k), "skip_failed")) =>
                    LET Failing == {i \in 1..Len(Value(k).q) : ~Recursed(k, Value(k).q[i]).ok}
                    IN  Failing # {} => RaisedAs(Recursed(k, Value(k).q[Least(Failing)]))
            /\ (/\ Under(k, "nested") /\ "pre_transform" \notin DOMAIN Node(k)
                /\ Node(k).nested.t = "dict" /\ DOMAIN Node(k).nested.d = {"k1"}
                /\ nesting_policy(Node(k).nested.d["k1"]) = "nested"
                /\ Value(k).t = "dict" /\ "k1" \in DOMAIN Value(k).d
                /\ Value(k).d["k1"].t = "dict" /\ "street" \in DOMAIN Value(k).d["k1"].d) =>
                    LET inner == Node(k).nested.d["k1"].nested.d["street"]
                        x == Value(k).d["k1"].d["street"]
                    IN  (/\ inner.validator \in DOMAIN registered_functions
                         /\ "pre_transform" \notin DOMAIN inner
                         /\ ~call_validator(registered_functions[inner.validator], x, "street", EmptyDict).ok) =>
                            RaisedAs(call_validator(registered_functions[inner.validator], x,
                                                    "street", EmptyDict))

\* the blacklisted street two levels down fails the call that has already
\* validated "id", and nothing is returned
C10_Witness ==
    /\ Done /\ Under("f", "nested") /\ "id" \in Before("f")
    /\ Value("f").t = "dict" /\ "k1" \in DOMAIN Value("f").d
    /\ Value("f").d["k1"] = DictVal([street |-> StrVal("blacklisted")])
    /\ ~result.ok /\ result.exc = "Invalid" /\ result.key = "street"
    /\ \E i \in 1..Len(result.log) : result.log[i].lvl = 2
    /\ "v" \notin DOMAIN result

(***************************************************************************)
(* A second call: maat_scale on the output of the first call, against the  *)
(* same schema.                                                            *)
(***************************************************************************)
\* maat_scale(validated_items, counter_dict)
CallAgain ==
    /\ result.done /\ result.ok /\ "again" \notin DOMAIN result
    /\ result' = result @@ [again |-> maat_scale(result.v, counter_dict)]
    /\ UNCHANGED <<registered_functions, input_dict, counter_dict, order, key_order>>

NextAgain == Call \/ Register \/ CallAgain

SpecAgain == Init /\ [][NextAgain]_vars

CalledAgain == "again" \in DOMAIN result

(***************************************************************************)
(* C11.  Idempotence: the call on the output of a successful call, against *)
(* the same schema, succeeds and returns that output.  The code does not   *)
(* keep this: a transform changes the type the validator accepts, a        *)
(* default_value is stored unvalidated and is validated by the second      *)
(* call, and the key an empty list_dicts or aso_array value leaves out is  *)
(* a missing key for the second call: the statement is violated.           *)
(***************************************************************************)
C11_Idempotent ==
    CalledAgain => (result.again.ok /\ result.again.v = result.v)

\* the second call returns the output of the first for a field that is
\* converted before and after its validator
C11_Witness ==
    /\ CalledAgain /\ result.again.ok /\ result.again.v = result.v
    /\ Held("f") /\ Value("f") = StrVal("2")
    /\ "pre_transform" \in DOMAIN Node("f") /\ "transform" \in DOMAIN Node("f")
    /\ Output["f"] = StrVal("2")

(***************************************************************************)
(* float_validation on its own: a float val (held in tenths) or NaN,       *)
(* against integer bounds min_amount and max_amount, max_amount not 0.     *)
(***************************************************************************)
FloatInputs == {FloatVal(n) : n \in (-10 * MaxInt - 5)..(10 * MaxInt + 5)} \cup {NaN}
BoundArgs ==
    {[min_amount |-> a, max_amount |-> b] : a \in (-MaxInt)..MaxInt, b \in ((-MaxInt)..MaxInt) \ {0}}

InitFloat ==
    /\ registered_functions = builtin_functions
    /\ order = AllKeys
    /\ key_order = order
    /\ input_dict \in FloatInputs
    /\ counter_dict \in {DictVal(a) : a \in BoundArgs}
    /\ result = [done |-> FALSE]

\* float_validation(val=val, min_amount=min_amount, max_amount=max_amount)
CallFloat ==
    /\ ~result.done
    /\ result' = [done |-> TRUE] @@ float_validation(input_dict, "val", counter_dict.d)
    /\ UNCHANGED <<registered_functions, input_dict, counter_dict, order, key_order>>

SpecFloat == InitFloat /\ [][CallFloat]_vars

LookedUp(k) == Held(k) /\ ~null_short_circuit(Value(k), Node(k)) /\ Reached(k)
\* node k recurses only: nested present, no list, list_dicts or aso_array flag
OnlyRecurses(k) ==
    /\ "nested" \in DOMAIN Node(k)
    /\ ~Truthy(Node(k), "list") /\ ~Truthy(Node(k), "list_dicts") /\ ~Truthy(Node(k), "aso_array")
\* the transformations node k names are registered
TransformationsFound(k) ==
    \A name \in {"pre_transform", "transform"} :
        name \in DOMAIN Node(k) => Node(k)[name] \in registered_transformation
\* the call raised the unknown-validator error for the name x (None: no name)
UnknownValidator(x) ==
    /\ ~result.ok /\ result.exc = "Invalid"
    /\ result.rule = "is not registered as validator" /\ result.val = x

(***************************************************************************)
(* C12.  A field present in the input whose lookups are made (it is not    *)
(* short-circuited by null and the loop gets to it) and whose node names   *)
(* a validator: when the name is not in the registry the call fails with   *)
(* the unknown-validator error carrying the name, under every nesting      *)
(* policy; when it is, the lookup succeeds and the call goes on to the     *)
(* transformation lookups, and a leaf's value is given to the function     *)
(* registered under the name, also one registered at runtime.              *)
(***************************************************************************)
C12_UnknownValidator ==
    Done =>
        \A k \in SchemaKeys :
            (LookedUp(k) /\ "validator" \in DOMAIN Node(k)) =>
                IF Node(k).validator \notin DOMAIN registered_functions
                THEN UnknownValidator(StrVal(Node(k).validator))
                ELSE /\ Steps(k, "get_transformation_func") # {}
                     /\ (/\ nesting_policy(Node(k)) = "leaf" /\ TransformationsFound(k)
                         /\ Transformed(k, "pre_transform", Value(k)).ok) =>
                            \E j \in Steps(k, "validate") :
                                result.log[j].fn = registered_functions[Node(k).validator]

\* before its registration valid_address is unknown to a call that names it
\* on an associative array
C12_Witness ==
    /\ Done /\ LookedUp("f") /\ nesting_policy(Node("f")) = "aso_array"
    /\ Node("f").validator = "valid_address"
    /\ "valid_address" \notin DOMAIN registered_functions
    /\ UnknownValidator(StrVal("valid_address"))

(***************************************************************************)
(* C13.  A node that only recurses and names no validator: the call        *)
(* recurses into the value against nested and its outcome is that of the   *)
(* recursion.  The code looks the validator up for every field before it   *)
(* dispatches, and fails for the missing name: the statement is violated.  *)
(***************************************************************************)
C13_RecursingNodeNeedsNoValidator ==
    Done =>
        \A k \in SchemaKeys :
            (/\ LookedUp(k) /\ OnlyRecurses(k) /\ TransformationsFound(k)
             /\ "validator" \notin DOMAIN Node(k)) =>
                /\ ~UnknownValidator(NoneVal)
                /\ IF Recursed(k, Value(k)).ok THEN OthersPass(k) => result.ok
                   ELSE RaisedAs(Recursed(k, Value(k)))

\* what the code does: the call fails with the unknown-validator error for
\* the name None, the value not looked at
C13_RecursingNodeNeedsValidator ==
    Done =>
        \A k \in SchemaKeys :
            (LookedUp(k) /\ OnlyRecurses(k) /\ "validator" \notin DOMAIN Node(k)) =>
                /\ UnknownValidator(NoneVal)
                /\ Steps(k, "maat_scale") = {}

\* a mapping that passes its nested schema is rejected for the validator
\* its node does not name
C13_Witness ==
    /\ Done /\ LookedUp("f") /\ OnlyRecurses("f") /\ "validator" \notin DOMAIN Node("f")
    /\ TransformationsFound("f") /\ Recursed("f", Value("f")).ok
    /\ UnknownValidator(NoneVal)

\* the call raised the unregistered-transformation error for the name x
UnknownTransformation(x) ==
    /\ ~result.ok /\ result.exc = "Invalid"
    /\ result.rule = "is not registered as transformation" /\ result.val = StrVal(x)
\* node k names a transformation under name that is not registered
Unregistered(k, name) ==
    name \in DOMAIN Node(k) /\ Node(k)[name] \notin registered_transformation
\* nothing was applied to the value of field k
NothingApplied(k) ==
    Steps(k, "pre_transform") \cup Steps(k, "validate") \cup Steps(k, "transform")
        \cup Steps(k, "maat_scale") = {}

(***************************************************************************)
(* C14.  A field whose transformation lookups are made (present, not       *)
(* short-circuited, the loop gets to it, its validator registered): a      *)
(* pre_transform or transform name that is set and not registered fails    *)
(* the call with the unregistered-transformation error naming it, the      *)
(* pre_transform's first, before anything is applied to the value, also    *)
(* when the validator would reject the value; with both names unset no     *)
(* such error is raised and a leaf's value goes to the validator and into  *)
(* the output as it is.                                                    *)
(***************************************************************************)
C14_TransformationLookup ==
    Done =>
        \A k \in SchemaKeys :
            (/\ LookedUp(k) /\ "validator" \in DOMAIN Node(k)
             /\ Node(k).validator \in DOMAIN registered_functions) =>
                IF Unregistered(k, "pre_transform")
                THEN UnknownTransformation(Node(k).pre_transform) /\ NothingApplied(k)
                ELSE IF Unregistered(k, "transform")
                THEN UnknownTransformation(Node(k).transform) /\ NothingApplied(k)
                ELSE /\ Cardinality(Steps(k, "get_transformation_func")) = 2
                     /\ ("pre_transform" \notin DOMAIN Node(k) /\ "transform" \notin DOMAIN Node(k)
                         /\ nesting_policy(Node(k)) = "leaf") =>
                            IF Validated(k, Value(k)).ok
                            THEN /\ OthersPass(k) => result.ok
                                 /\ result.ok => Output[k] = Validated(k, Value(k)).v
                            ELSE RaisedAs(Validated(k, Value(k)))

\* the unregistered transform is reported for a value its validator rejects
C14_Witness ==
    /\ Done /\ LookedUp("f") /\ nesting_policy(Node("f")) = "leaf"
    /\ "validator" \in DOMAIN Node("f") /\ Node("f").validator = "int"
    /\ Value("f") = StrVal("ok") /\ "pre_transform" \notin DOMAIN Node("f")
    /\ Unregistered("f", "transform")
    /\ UnknownTransformation(Node("f").transform)

(***************************************************************************)
(* C15.  Every failure of maat_scale is an error of the one family         *)
(* Invalid.  The code lets the ValueError and TypeError of a               *)
(* transformation that cannot convert, the TypeError of iterating a value  *)
(* that is no sequence and the AttributeError of val.iteritems() on a      *)
(* value that is no mapping leave the call: the statement is violated.     *)
(***************************************************************************)
C15_OnlyInvalidEscapes ==
    (Done /\ ~result.ok) => result.exc = "Invalid"

\* what the code does: the exceptions that leave a call
C15_ExceptionsThatEscape ==
    (Done /\ ~result.ok) => result.exc \in {"Invalid", "ValueError", "TypeError", "AttributeError"}

\* int('ok') of a pre_transform leaves the call as ValueError
C15_Witness ==
    /\ Done /\ LookedUp("f") /\ LookupsFound("f") /\ nesting_policy(Node("f")) = "leaf"
    /\ Value("f") = StrVal("ok")
    /\ "pre_transform" \in DOMAIN Node("f") /\ Node("f").pre_transform = "int"
    /\ ~result.ok /\ result.exc = "ValueError"

(***************************************************************************)
(* Calls on nodes that set any combination of nested, list, list_dicts and *)
(* aso_array, on a list of mappings, a list of texts, a mapping of         *)
(* mappings and a mapping of texts.                                        *)
(***************************************************************************)
PolicyNodes ==
    {[validator |-> "valid_address"] @@ n @@ l @@ ld @@ a :
        n \in {NoKeys, [nested |-> Schema([street |-> [validator |-> "str", optional |-> TRUE]])]},
        l \in {NoKeys, [list |-> TRUE]},
        ld \in {NoKeys, [list_dicts |-> TRUE]},
        a \in {NoKeys, [aso_array |-> TRUE], [aso_array |-> FALSE]}}
PolicyValues ==
    {ListVal(<<DictVal([street |-> StrVal("ok")])>>), ListVal(<<StrVal("ok")>>),
     DictVal([k1 |-> DictVal([street |-> StrVal("ok")])]), DictVal([street |-> StrVal("ok")])}

InitPolicy ==
    /\ registered_functions = builtin_functions
    /\ order \in Orders
    /\ key_order = order
    /\ counter_dict \in {Schema([f |-> n]) : n \in PolicyNodes}
    /\ input_dict \in {DictVal([f |-> v]) : v \in PolicyValues}
    /\ result = [done |-> FALSE]

SpecPolicy == InitPolicy /\ [][Next]_vars

Policies == {"leaf", "list", "list_dicts", "nested", "aso_array"}
\* the policy the precedence order gives node k
Expected(k) ==
    IF "nested" \notin DOMAIN Node(k) THEN "leaf"
    ELSE IF Truthy(Node(k), "list") THEN "list"
    ELSE IF Truthy(Node(k), "list_dicts") THEN "list_dicts"
    ELSE IF ~Truthy(Node(k), "aso_array") THEN "nested"
    ELSE "aso_array"
\* the first step the call applied to the value of field k or to a part of it
FirstApplied(k) ==
    result.log[Least(Steps(k, "pre_transform") \cup Steps(k, "validate")
                        \cup Steps(k, "transform") \cup Steps(k, "maat_scale"))]
\* the first element the iteration over the value of field k visits
FirstElement(k) == py_list(Value(k)).v.q[1]
\* what each policy leaves in the log for a value that is not empty, the
\* validator accepting it: the leaf converts and validates the value itself
\* and recurses nowhere; the list converts its first element first and
\* recurses nowhere; list_dicts validates the value itself first and then
\* converts elements; plain nested converts the value itself and recurses;
\* the associative array validates the value itself and converts nothing
Ran(k, p) ==
    /\ ~NothingApplied(k)
    /\ CASE p = "leaf" ->
                /\ FirstApplied(k).op = "pre_transform" /\ FirstApplied(k).val = Value(k)
                /\ Steps(k, "maat_scale") = {}
         [] p = "list" ->
                /\ FirstApplied(k).op = "pre_transform" /\ FirstApplied(k).val = FirstElement(k)
                /\ Steps(k, "maat_scale") = {}
         [] p = "list_dicts" ->
                /\ FirstApplied(k).op = "validate" /\ FirstApplied(k).val = Value(k)
                /\ Steps(k, "pre_transform") # {}
         [] p = "nested" ->
                /\ FirstApplied(k).op = "pre_transform" /\ FirstApplied(k).val = Value(k)
                /\ Steps(k, "maat_scale") # {}
         [] p = "aso_array" ->
                /\ FirstApplied(k).op = "validate" /\ FirstApplied(k).val = Value(k)
                /\ Steps(k, "pre_transform") = {}

(***************************************************************************)
(* C17.  For a field present in the input, not short-circuited by null,    *)
(* its lookups succeeding, exactly one nesting policy is executed, the     *)
(* first match of: nested absent -> leaf (whatever list, list_dicts and    *)
(* aso_array say); list set -> list; list_dicts set -> list_dicts;         *)
(* aso_array not set -> plain nested; else associative array.  A node      *)
(* that sets list_dicts without nested is a leaf: its elements are not     *)
(* inspected.                                                              *)
(***************************************************************************)
C17_PolicyPrecedence ==
    Done =>
        \A k \in SchemaKeys :
            (LookedUp(k) /\ LookupsFound(k)) =>
                {p \in Policies : Ran(k, p)} = {Expected(k)}

\* a node with list_dicts and aso_array set and no nested validates a list
\* of mappings as a leaf and stores it as it is
C17_Witness ==
    /\ Succeeded /\ LookedUp("f") /\ LookupsFound("f")
    /\ "nested" \notin DOMAIN Node("f")
    /\ Truthy(Node("f"), "list_dicts") /\ Truthy(Node("f"), "aso_array")
    /\ Value("f") = ListVal(<<DictVal([street |-> StrVal("ok")])>>)
    /\ Ran("f", "leaf") /\ Steps("f", "maat_scale") = {}
    /\ Output["f"] = Value("f")

(***************************************************************************)
(* C18.  A node that only recurses, its lookups succeeding: the validator  *)
(* is looked up, but neither it nor its args is applied to the value; the  *)
(* outcome for the field is transform(maat_scale(pre_transform(value),     *)
(* nested)), so a mapping is accepted under the validator list and under   *)
(* dict with a min_amount above its size.                                  *)
(***************************************************************************)
C18_PlainNestedSkipsValidator ==
    Done =>
        \A k \in SchemaKeys :
            (LookedUp(k) /\ LookupsFound(k) /\ OnlyRecurses(k)) =>
                /\ Steps(k, "get_validation_func") # {}
                /\ Steps(k, "validate") = {}
                /\ IF Recursed(k, Value(k)).ok
                   THEN /\ OthersPass(k) => result.ok
                        /\ result.ok => (k \in DOMAIN Output /\ Output[k] = Recursed(k, Value(k)).v)
                   ELSE RaisedAs(Recursed(k, Value(k)))

\* a mapping is accepted under a node that only recurses and names the
\* validator list
C18_Witness ==
    /\ Succeeded /\ LookedUp("f") /\ OnlyRecurses("f")
    /\ "validator" \in DOMAIN Node("f") /\ Node("f").validator = "list"
    /\ Value("f") = DictVal([street |-> StrVal("ok")])
    /\ ~Validated("f", Value("f")).ok
    /\ Output["f"] = Value("f")

\* a collection without elements: what iterating it visits nothing of
IsEmpty(x) ==
    \/ x.t \in {"list", "tuple"} /\ x.q = <<>>
    \/ x.t = "dict" /\ DOMAIN x.d = {}
    \/ x.t = "basestring" /\ x.s = ""

(***************************************************************************)
(* C19.  After a successful call a schema key whose field is present in    *)
(* the input is missing from the output exactly when the field is not      *)
(* short-circuited, its policy is list_dicts or aso_array and its value    *)
(* is an empty collection; and a list_dicts value that is not empty and    *)
(* whose elements are all dropped under skip_failed is stored as the       *)
(* empty list.                                                             *)
(***************************************************************************)
C19_KeyMissingOnlyForEmptyCollection ==
    Succeeded =>
        \A k \in SchemaKeys :
            Held(k) =>
                /\ k \notin DOMAIN Output <=>
                        /\ ~null_short_circuit(Value(k), Node(k))
                        /\ Expected(k) \in {"list_dicts", "aso_array"}
                        /\ IsEmpty(Value(k))
                /\ (/\ ~null_short_circuit(Value(k), Node(k)) /\ Expected(k) = "list_dicts"
                    /\ IsSequence(Value(k)) /\ Value(k).q # <<>>
                    /\ \A i \in 1..Len(Value(k).q) : ~Recursed(k, Value(k).q[i]).ok) =>
                        (k \in DOMAIN Output /\ Output[k] = ListVal(<<>>))

\* the empty list under list_dicts leaves the key out of the output
C19_Witness ==
    /\ Succeeded /\ Held("f") /\ Expected("f") = "list_dicts"
    /\ Value("f") = ListVal(<<>>)
    /\ "f" \notin DOMAIN Output

\* the values of the results in rs that were not dropped, in their order
Collected(rs) ==
    LET kept == SelectSeq(rs, LAMBDA r : r.ok)
    IN  [i \in 1..Len(kept) |-> kept[i].v]

(***************************************************************************)
(* C20.  Under the list and list_dicts policies the output list of a       *)
(* successful call is the sequence of the processed results of exactly     *)
(* the input elements that were not dropped, in the order of the input.    *)
(***************************************************************************)
C20_ListOrderPreserved ==
    Succeeded =>
        \A k \in SchemaKeys :
            /\ (Under(k, "list") /\ IsSequence(Value(k))) =>
                    /\ k \in DOMAIN Output /\ Output[k].t = "list"
                    /\ Output[k].q = Collected([i \in 1..Len(Value(k).q) |-> Piped(k, Value(k).q[i])])
            /\ (Under(k, "list_dicts") /\ IsSequence(Value(k)) /\ Value(k).q # <<>>) =>
                    /\ k \in DOMAIN Output /\ Output[k].t = "list"
                    /\ Output[k].q = Collected([i \in 1..Len(Value(k).q) |-> Recursed(k, Value(k).q[i])])

\* two different elements that pass come out in the order they went in
C20_Witness ==
    /\ Succeeded /\ Under("f", "list")
    /\ Value("f") = ListVal(<<StrVal("ok"), StrVal("2")>>)
    /\ Output["f"] = ListVal(<<StrVal("ok"), StrVal("2")>>)

\* a list_dicts value of two elements, both dropped, is stored as the empty
\* list
C19_AllDropped ==
    /\ Succeeded /\ Held("f") /\ Expected("f") = "list_dicts"
    /\ IsSequence(Value("f")) /\ Len(Value("f").q) = 2
    /\ \A i \in 1..2 : ~Recursed("f", Value("f").q[i]).ok
    /\ Output["f"] = ListVal(<<>>)

\* a list_dicts value whose first element is dropped and whose second is kept
C20_KeptAfterDropped ==
    /\ Succeeded /\ Under("f", "list_dicts")
    /\ IsSequence(Value("f")) /\ Len(Value("f").q) = 2
    /\ ~Recursed("f", Value("f").q[1]).ok /\ Recursed("f", Value("f").q[2]).ok
    /\ "f" \in DOMAIN Output
    /\ Output["f"] = ListVal(<<Recursed("f", Value("f").q[2]).v>>)

(***************************************************************************)
(* The same call made again with the loops of maat_scale visiting the      *)
(* schema's fields and an associative array's keys in another order; the   *)
(* input, the schema, the registry and the order in which a dict value is  *)
(* written out stay as they were.                                          *)
(***************************************************************************)

\* a nested schema of two fields
PairSchema == Schema([street |-> [validator |-> "valid_address"], z |-> IdNode])
\* mappings for it: either field passing, failing or missing
PairDicts == DictsOf({"street", "z"}, {StrVal("ok"), StrVal("blacklisted"), IntVal(0), IntVal(1)})

\* nodes that recurse into PairSchema under each policy, and leaves that
\* write a dict value out as text or as its list of keys
ReorderCases ==
    ({[nested |-> PairSchema, validator |-> "dict"] @@ b : b \in {NoKeys, [transform |-> "json"]}}
        \X (PairDicts \cup {Absent}))
    \cup ({[nested |-> PairSchema, validator |-> "list", list_dicts |-> TRUE] @@ sk @@ b :
                sk \in SkipParts, b \in {NoKeys, [transform |-> "json"]}}
        \X ListsOf({DictVal([street |-> StrVal(w), z |-> IntVal(i)]) :
                        w \in {"ok", "blacklisted"}, i \in {0, 1}}))
    \cup ({[nested |-> ns, validator |-> "dict", aso_array |-> TRUE] :
                ns \in {PairSchema} \cup StreetSchemas}
        \X DictsOf({"k1", "k2"}, PairDicts \cup {IntVal(1)}))
    \cup ({[validator |-> "dict"] @@ b : b \in {[transform |-> "json"], [transform |-> "str"],
                                               [transform |-> "list"]}}
        \X PairDicts)
    \cup (LeafNodes \X (LeafValues \cup {Absent}))

\* the iteration orders of the second call: the fields swapped, the keys of
\* an associative array and of PairSchema swapped, everything reversed
Reorderings ==
    Orders \cup {<<"id", "f", "k1", "k2", "street", "z">>, <<"f", "id", "k2", "k1", "z", "street">>}

InitReorder ==
    /\ registered_functions = builtin_functions
    /\ order \in Orders
    /\ key_order = order
    /\ \E fc \in ReorderCases, c \in Companions :
            /\ counter_dict = SchemaOf(fc[1], c)
            /\ input_dict = InputOf(fc[2], c)
    /\ result = [done |-> FALSE]

\* counter_dict.iteritems() and val.iteritems() come to visit the keys in
\* another order; result.was keeps the order of the first call
Reorder ==
    /\ result.done /\ "was" \notin DOMAIN result
    /\ order' \in Reorderings \ {order}
    /\ result' = result @@ [was |-> order]
    /\ UNCHANGED <<registered_functions, input_dict, counter_dict, key_order>>

\* maat_scale(input_dict, counter_dict) called under the new order
CallReordered ==
    /\ result.done /\ "was" \in DOMAIN result /\ "other" \notin DOMAIN result
    /\ result' = result @@ [other |-> maat_scale(input_dict, counter_dict)]
    /\ UNCHANGED <<registered_functions, input_dict, counter_dict, order, key_order>>

NextReorder == Call \/ Register \/ Reorder \/ CallReordered

SpecReorder == InitReorder /\ [][NextReorder]_vars

Reordered == result.done /\ "other" \in DOMAIN result

C21_ErrorDependsOnOrder ==
    /\ Reordered /\ ~result.ok /\ ~result.other.ok
    /\ result.key = "id" /\ result.other.key = "f"

\* both calls succeed on a field whose output is the JSON text of a nested
\* output of two keys
C21_TextOfTwoKeys ==
    /\ Reordered /\ result.ok
    /\ Node("f") = [nested |-> PairSchema, validator |-> "dict", transform |-> "json"]
    /\ result.v.d["f"].t = "basestring"
    /\ DOMAIN Value("f").d = {"street", "z"}

====
